---- MODULE Spec2Model ----
(***************************************************************************)
(* MarkdownContent (ragflow/web/src/pages/chat/markdown-content/index.tsx): *)
(* the chat answer renderer.  Text is a sequence of lexical tokens, a      *)
(* reference table is a record, and one render is a function of the        *)
(* component's props, its hook data and its memo cells.                    *)
(***************************************************************************)
EXTENDS Integers, Sequences, FiniteSets, TLC

VARIABLES
    content,             \* prop: the answer text so far
    updates,             \* number of stream deltas appended to content
    reference,           \* prop: the reference table
    clickDocumentButton, \* prop: TRUE when the callback is supplied
    documentIds,         \* useFetchDocumentThumbnailsByIds: the ids asked for
    fileThumbnails,      \* useFetchDocumentThumbnailsByIds: data
    effect,              \* the latest activation: the element, what it did
    hooks,               \* the cells of useMemo and useCallback
    walk                 \* a run of rehypeWrapReference over a tree of objects

vars == <<content, updates, reference, clickDocumentButton, documentIds,
          fileThumbnails, effect, hooks, walk>>

(***************************************************************************)
(* Bounds of the model.                                                    *)
(***************************************************************************)
\* stream deltas in one answer
MaxLen == 3
\* chunks in one reference table
MaxChunks == 2
\* depth of the trees handed to rehypeWrapReference
MaxDepth == 2

(***************************************************************************)
(* JavaScript values.  A string-valued field that is absent holds          *)
(* Undefined; an absent object is a record whose isUndefined is TRUE.      *)
(***************************************************************************)
Undefined == "undefined"

Truthy(s) == s # Undefined /\ s # ""

\* All sequences over S of length at most n.
SeqsUpTo(S, n) == UNION {[1..k -> S] : k \in 0..n}

RECURSIVE Flatten(_)
Flatten(ss) == IF ss = <<>> THEN <<>> ELSE Head(ss) \o Flatten(Tail(ss))

(***************************************************************************)
(* Lexical tokens of an answer.                                            *)
(***************************************************************************)
Digits == {"0", "1", "2", "3", "4", "5", "6", "7", "8", "9"}

DigitValue(d) ==
    CASE d = "0" -> 0 [] d = "1" -> 1 [] d = "2" -> 2 [] d = "3" -> 3
      [] d = "4" -> 4 [] d = "5" -> 5 [] d = "6" -> 6 [] d = "7" -> 7
      [] d = "8" -> 8 [] d = "9" -> 9

\* Number(match) on a run of decimal digits.
RECURSIVE Number(_)
Number(ds) ==
    IF ds = <<>> THEN 0
    ELSE Number(SubSeq(ds, 1, Len(ds) - 1)) * 10 + DigitValue(ds[Len(ds)])

getChunkIndex_oneBased(match) == Number(match) - 1

getChunkIndex(match) == Number(match)

(***************************************************************************)
(* The marker grammars (../utils): currentReg is an opening delimiter, one *)
(* or more digits (the capture group) and a closing delimiter; the legacy  *)
(* grammar is "##" digits "$$".                                            *)
(***************************************************************************)
\* The end of the digit run that starts at position i (i - 1 when none).
RECURSIVE DigitRunEnd(_, _)
DigitRunEnd(text, i) ==
    IF i <= Len(text) /\ text[i] \in Digits THEN DigitRunEnd(text, i + 1)
    ELSE i - 1

\* The position of the closing delimiter of a match of open digits+ close
\* starting at i, or 0 when there is no match at i.
MatchEnd(text, i, open, close) ==
    IF i <= Len(text) /\ text[i] = open
    THEN LET e == DigitRunEnd(text, i + 1)
         IN IF e >= i + 1 /\ e + 1 <= Len(text) /\ text[e + 1] = close
            THEN e + 1 ELSE 0
    ELSE 0

currentReg(text, i) == MatchEnd(text, i, "[ID:", "]")

oldReg(text, i) == MatchEnd(text, i, "##", "$$")

\* text.replace(oldReg, transformReg): every legacy marker becomes a current one.
RECURSIVE replaceTextByOldRegFrom(_, _)
replaceTextByOldRegFrom(text, i) ==
    IF i > Len(text) THEN <<>>
    ELSE LET e == oldReg(text, i)
         IN IF e = 0 THEN <<text[i]>> \o replaceTextByOldRegFrom(text, i + 1)
            ELSE <<"[ID:">> \o SubSeq(text, i + 1, e - 1) \o <<"]">>
                 \o replaceTextByOldRegFrom(text, e + 1)

replaceTextByOldReg(text) == replaceTextByOldRegFrom(text, 1)

(***************************************************************************)
(* String.prototype.split(currentReg) with its one capture group: the      *)
(* result alternates the text between matches (even places, possibly       *)
(* empty) with the captured digits of each match (odd places, 0-based).    *)
(***************************************************************************)
RECURSIVE SplitFrom(_, _, _)
SplitFrom(text, i, acc) ==
    IF i > Len(text) THEN <<acc>>
    ELSE LET e == currentReg(text, i)
         IN IF e = 0 THEN SplitFrom(text, i + 1, Append(acc, text[i]))
            ELSE <<acc, SubSeq(text, i + 1, e - 1)>> \o SplitFrom(text, e + 1, <<>>)

Split(text) == SplitFrom(text, 1, <<>>)

(***************************************************************************)
(* Sanitizer and helpers of @/utils.                                       *)
(***************************************************************************)
\* Markup tokens that execute: script elements, event-handler attributes,
\* unsafe URL schemes.
Executable == {"<script>", "onerror=", "javascript:"}

\* DOMPurify.sanitize: executable markup is stripped, the rest is kept.
RECURSIVE DOMPurify_sanitize(_)
DOMPurify_sanitize(html) ==
    IF html = <<>> THEN <<>>
    ELSE (IF Head(html) \in Executable THEN <<>> ELSE <<Head(html)>>)
         \o DOMPurify_sanitize(Tail(html))

HasExecutable(html) == \E i \in DOMAIN html : html[i] \in Executable

\* showImage: the chunk's type is visual media.
showImage(docType) == docType = "image"

toLowerCase(s) == IF s = "PDF" THEN "pdf" ELSE s

\* The last position of "." in name, 0 when there is none.
RECURSIVE lastIndexOfDot(_, _)
lastIndexOfDot(name, i) ==
    IF i = 0 THEN 0
    ELSE IF name[i] = "." THEN i ELSE lastIndexOfDot(name, i - 1)

\* getExtension: what follows the last "." of the name, lower-cased.
\* (a name is a token sequence; the absent name is the empty one)
getExtension(name) ==
    LET ext == SubSeq(name, lastIndexOfDot(name, Len(name)) + 1, Len(name))
    IN IF Len(ext) = 1 THEN toLowerCase(ext[1]) ELSE ""

(***************************************************************************)
(* Reference tables (IReference).                                          *)
(***************************************************************************)
\* chunks[chunkIndex] when the index is past the end, or reference absent.
UndefinedChunk ==
    [isUndefined |-> TRUE, id |-> Undefined, document_id |-> Undefined,
     content |-> <<>>, image_id |-> Undefined, doc_type |-> Undefined]

\* find() that found nothing.
UndefinedDocument ==
    [isUndefined |-> TRUE, doc_id |-> Undefined, doc_name |-> <<>>,
     url |-> Undefined]

Chunk(id, documentId, html, imageId, docType) ==
    [isUndefined |-> FALSE, id |-> id, document_id |-> documentId,
     content |-> html, image_id |-> imageId, doc_type |-> docType]

DocAgg(docId, docName, url) ==
    [isUndefined |-> FALSE, doc_id |-> docId, doc_name |-> docName, url |-> url]

UndefinedReference ==
    [isUndefined |-> TRUE, chunks |-> [kind |-> "undefined", items |-> <<>>],
     doc_aggs |-> [kind |-> "undefined", items |-> <<>>]]

\* kind is "array", "undefined" (the field is missing) or, for doc_aggs,
\* "object" (a value that is not an array).
Reference(chunksKind, chunks, docAggsKind, docAggs) ==
    [isUndefined |-> FALSE, chunks |-> [kind |-> chunksKind, items |-> chunks],
     doc_aggs |-> [kind |-> docAggsKind, items |-> docAggs]]

\* Array.prototype.find with the predicate x?.doc_id === documentId.
RECURSIVE find(_, _)
find(docAggs, documentId) ==
    IF docAggs = <<>> THEN UndefinedDocument
    ELSE IF Head(docAggs).doc_id = documentId THEN Head(docAggs)
         ELSE find(Tail(docAggs), documentId)

(***************************************************************************)
(* getReferenceInfo, lines 102-126.  threw: the call raised a TypeError.   *)
(***************************************************************************)
\* Lines 109-123: what is read off the chunk and the document found.
ReferenceInfo(threw, thumbnails, chunkItem, document) ==
    LET \* document?.doc_id
        documentId == document.doc_id
    IN [threw |-> threw,
        documentUrl |-> document.url,
        fileThumbnail |-> IF Truthy(documentId)
                          THEN (IF documentId \in DOMAIN thumbnails
                                THEN thumbnails[documentId] ELSE Undefined)
                          ELSE "",
        fileExtension |-> IF Truthy(documentId)
                          THEN getExtension(document.doc_name) ELSE "",
        imageId |-> chunkItem.image_id,
        chunkItem |-> chunkItem,
        documentId |-> documentId,
        document |-> document]

\* reference?.chunks ?? [], then chunks[chunkIndex]
ChunkItemOf(ref, chunkIndex) ==
    LET chunks == IF ref.isUndefined \/ ref.chunks.kind = "undefined"
                  THEN <<>> ELSE ref.chunks.items
    IN IF chunkIndex + 1 \in DOMAIN chunks THEN chunks[chunkIndex + 1]
       ELSE UndefinedChunk

\* reference?.doc_aggs?.find((x) => x?.doc_id === chunkItem?.document_id)
DocumentOf(ref, chunkItem) ==
    IF ref.isUndefined \/ ref.doc_aggs.kind # "array" THEN UndefinedDocument
    ELSE find(ref.doc_aggs.items, chunkItem.document_id)

\* Calling find on a doc_aggs that is neither missing nor an array is a
\* TypeError.
FindThrows(ref) == ~ref.isUndefined /\ ref.doc_aggs.kind = "object"

\* A chunk whose document is not found gets the first document of the table.
getReferenceInfo_firstDocument(ref, thumbnails, chunkIndex) ==
    LET chunkItem == ChunkItemOf(ref, chunkIndex)
        found == DocumentOf(ref, chunkItem)
    IN ReferenceInfo(FindThrows(ref), thumbnails, chunkItem,
                     IF found.isUndefined /\ ~ref.isUndefined
                        /\ ref.doc_aggs.items # <<>>
                     THEN ref.doc_aggs.items[1] ELSE found)

\* reference.chunks and chunkItem.document_id in place of the ?. forms.
getReferenceInfo_noOptionalChaining(ref, thumbnails, chunkIndex) ==
    LET chunkItem == ChunkItemOf(ref, chunkIndex)
    IN ReferenceInfo(FindThrows(ref) \/ ref.isUndefined \/ chunkItem.isUndefined,
                     thumbnails, chunkItem, DocumentOf(ref, chunkItem))

getReferenceInfo(ref, thumbnails, chunkIndex) ==
    LET chunkItem == ChunkItemOf(ref, chunkIndex)
    IN ReferenceInfo(FindThrows(ref), thumbnails, chunkItem,
                     DocumentOf(ref, chunkItem))

(***************************************************************************)
(* handleDocumentButtonClick, lines 65-83: the closure it returns, and     *)
(* what running the closure does.                                          *)
(***************************************************************************)
\* The closure ran and did nothing.
NoEffect ==
    [kind |-> "none", url |-> Undefined, documentId |-> Undefined,
     chunk |-> UndefinedChunk]

\* No citation has been activated since the latest render.
Idle == [via |-> "nothing", did |-> NoEffect, calls |-> <<>>]

WindowOpen(url) == [NoEffect EXCEPT !.kind = "window.open", !.url = url]

ClickDocumentButton(documentId, chunk) ==
    [NoEffect EXCEPT !.kind = "clickDocumentButton",
                     !.documentId = documentId, !.chunk = chunk]

\* () => {}
EmptyHandler ==
    [isEmpty |-> TRUE, documentId |-> Undefined, chunk |-> UndefinedChunk,
     isPdf |-> FALSE, documentUrl |-> Undefined]

handleDocumentButtonClick(documentId, chunk, isPdf, documentUrl) ==
    [isEmpty |-> FALSE, documentId |-> documentId, chunk |-> chunk,
     isPdf |-> isPdf, documentUrl |-> documentUrl]

\* The callback is the fallback whenever there is no url to open.
onClick_callbackWithoutUrl(handler, callback) ==
    IF handler.isEmpty THEN NoEffect
    ELSE IF ~handler.isPdf /\ Truthy(handler.documentUrl)
         THEN WindowOpen(handler.documentUrl)
         ELSE (IF callback
               THEN ClickDocumentButton(handler.documentId, handler.chunk)
               ELSE NoEffect)

\* The body of the returned closure, lines 72-81; callback: the prop
\* clickDocumentButton was supplied.
onClick(handler, callback) ==
    IF handler.isEmpty THEN NoEffect
    ELSE IF ~handler.isPdf
         THEN (IF ~Truthy(handler.documentUrl) THEN NoEffect
               ELSE WindowOpen(handler.documentUrl))
         ELSE (IF callback
               THEN ClickDocumentButton(handler.documentId, handler.chunk)
               ELSE NoEffect)

\* Line 75 does not return and line 79 is not under an else: the closure
\* goes on from one branch into the other.
Calls_fallsThrough(handler, callback) ==
    IF handler.isEmpty THEN <<>>
    ELSE (IF ~handler.isPdf /\ Truthy(handler.documentUrl)
          THEN <<WindowOpen(handler.documentUrl)>> ELSE <<>>)
         \o (IF callback
             THEN <<ClickDocumentButton(handler.documentId, handler.chunk)>>
             ELSE <<>>)

\* The calls the closure makes while it runs, in order: window.open at
\* line 77, clickDocumentButton at line 79.
Calls(handler, callback) ==
    IF handler.isEmpty THEN <<>>
    ELSE IF ~handler.isPdf
         THEN (IF ~Truthy(handler.documentUrl) THEN <<>>
               ELSE <<WindowOpen(handler.documentUrl)>>)
         ELSE (IF callback
               THEN <<ClickDocumentButton(handler.documentId, handler.chunk)>>
               ELSE <<>>)

(***************************************************************************)
(* getPopoverContent, lines 128-198.                                       *)
(***************************************************************************)
NoLink ==
    [present |-> FALSE, imgSrc |-> Undefined, icon |-> Undefined,
     onClick |-> EmptyHandler, label |-> <<>>]

PopoverLink(info) ==
    [present |-> TRUE,
     imgSrc |-> IF Truthy(info.fileThumbnail) THEN info.fileThumbnail ELSE Undefined,
     icon |-> IF Truthy(info.fileThumbnail) THEN Undefined ELSE info.fileExtension,
     onClick |-> handleDocumentButtonClick(info.documentId, info.chunkItem,
                                           info.fileExtension = "pdf",
                                           info.documentUrl),
     label |-> info.document.doc_name]

\* chunkItem.content goes to the sink as it is.
getPopoverContent_unsanitized(ref, thumbnails, chunkIndex) ==
    LET info == getReferenceInfo(ref, thumbnails, chunkIndex)
    IN [threw |-> info.threw, key |-> info.chunkItem.id,
        hasImage |-> Truthy(info.imageId), imageId |-> info.imageId,
        html |-> info.chunkItem.content,
        link |-> IF Truthy(info.documentId) THEN PopoverLink(info) ELSE NoLink]

\* {document && ...} in place of {documentId && ...}.
getPopoverContent_guardsOnDocument(ref, thumbnails, chunkIndex) ==
    LET info == getReferenceInfo(ref, thumbnails, chunkIndex)
    IN [threw |-> info.threw, key |-> info.chunkItem.id,
        hasImage |-> Truthy(info.imageId), imageId |-> info.imageId,
        html |-> DOMPurify_sanitize(info.chunkItem.content),
        link |-> IF ~info.document.isUndefined THEN PopoverLink(info) ELSE NoLink]

getPopoverContent(ref, thumbnails, chunkIndex) ==
    LET info == getReferenceInfo(ref, thumbnails, chunkIndex)
    IN [threw |-> info.threw,
        key |-> info.chunkItem.id,
        \* {imageId && <Popover><Image id={imageId}/></Popover>}
        hasImage |-> Truthy(info.imageId),
        imageId |-> info.imageId,
        \* dangerouslySetInnerHTML
        html |-> DOMPurify_sanitize(info.chunkItem.content),
        \* {documentId && <Flex> thumbnail or icon, <Button/> </Flex>}
        \* thumbnail or file icon, and the Button of lines 179-190
        link |-> IF Truthy(info.documentId) THEN PopoverLink(info) ELSE NoLink]

(***************************************************************************)
(* renderReference, lines 200-239: reactStringReplace(text, currentReg, fn)*)
(* splits the text and replaces every captured match by fn(match).         *)
(***************************************************************************)
TextNode(value) == [type |-> "text", value |-> value]

\* The mode is decided by the presence of an image id.
Annotation_byImageId(ref, thumbnails, match) ==
    LET chunkIndex == getChunkIndex(match)
        info == getReferenceInfo(ref, thumbnails, chunkIndex)
    IN IF Truthy(info.imageId)
       THEN [type |-> "Image", threw |-> info.threw, id |-> info.imageId,
             onClick |-> EmptyHandler]
       ELSE [type |-> "Popover", threw |-> info.threw,
             content |-> getPopoverContent(ref, thumbnails, chunkIndex)]

\* The inline image passes no url to the handler.
Annotation_imageWithoutUrl(ref, thumbnails, match) ==
    LET chunkIndex == getChunkIndex(match)
        info == getReferenceInfo(ref, thumbnails, chunkIndex)
    IN IF showImage(info.chunkItem.doc_type)
       THEN [type |-> "Image", threw |-> info.threw, id |-> info.imageId,
             onClick |-> IF Truthy(info.documentId)
                         THEN handleDocumentButtonClick(
                                  info.documentId, info.chunkItem,
                                  info.fileExtension = "pdf", Undefined)
                         ELSE EmptyHandler]
       ELSE LET popover == getPopoverContent(ref, thumbnails, chunkIndex)
            IN [type |-> "Popover", threw |-> info.threw \/ popover.threw,
                content |-> popover]

\* The callback given to reactStringReplace, lines 202-230.
Annotation(ref, thumbnails, match) ==
    LET chunkIndex == getChunkIndex(match)
        info == getReferenceInfo(ref, thumbnails, chunkIndex)
        docType == info.chunkItem.doc_type
    IN IF showImage(docType)
       THEN [type |-> "Image", threw |-> info.threw, id |-> info.imageId,
             onClick |-> IF Truthy(info.documentId)
                         THEN handleDocumentButtonClick(
                                  info.documentId, info.chunkItem,
                                  info.fileExtension = "pdf", info.documentUrl)
                         ELSE EmptyHandler]
       ELSE LET popover == getPopoverContent(ref, thumbnails, chunkIndex)
            IN [type |-> "Popover", threw |-> info.threw \/ popover.threw,
                content |-> popover]

\* Only a marker whose chunk exists is replaced; the others stay as text.
renderReference_validOnly(ref, thumbnails, text) ==
    LET parts == Split(text)
    IN [i \in 1..Len(parts) |->
           IF i % 2 = 0
           THEN (IF getReferenceInfo(ref, thumbnails,
                                     getChunkIndex(parts[i])).chunkItem.isUndefined
                 THEN TextNode(<<"[ID:">> \o parts[i] \o <<"]">>)
                 ELSE Annotation(ref, thumbnails, parts[i]))
           ELSE TextNode(parts[i])]

\* The text after the last marker is not returned.
renderReference_dropsTail(ref, thumbnails, text) ==
    LET parts == Split(text)
        kept == IF Len(parts) > 1 THEN Len(parts) - 1 ELSE Len(parts)
    IN [i \in 1..kept |->
           IF i % 2 = 0 THEN Annotation(ref, thumbnails, parts[i])
           ELSE TextNode(parts[i])]

renderReference(ref, thumbnails, text) ==
    LET parts == Split(text)
    IN [i \in 1..Len(parts) |->
           IF i % 2 = 0 THEN Annotation(ref, thumbnails, parts[i])
           ELSE TextNode(parts[i])]

IsAnnotation(node) == node.type \in {"Image", "Popover"}

(***************************************************************************)
(* contentWithCursor, lines 50-58: the normalization passes.               *)
(***************************************************************************)
\* t('chat.searching')
Searching == <<"searching">>

\* replaceThinkToSection: the reasoning tags become a foldable section.
replaceThinkToSection(text) ==
    [i \in DOMAIN text |->
        IF text[i] = "<think>" THEN "<section>"
        ELSE IF text[i] = "</think>" THEN "</section>" ELSE text[i]]

\* preprocessLaTeX: bracket-style math delimiters become dollar delimiters.
preprocessLaTeX(text) ==
    [i \in DOMAIN text |->
        IF text[i] \in {"\\[", "\\]"} THEN "$$"
        ELSE IF text[i] \in {"\\(", "\\)"} THEN "$" ELSE text[i]]

\* The placeholder is put in front of the answer, whatever the answer.
TextEntering_placeholderFirst(c) == Searching \o c

\* Lines 52-55, the variable text: the content, or the placeholder when the
\* content is the empty string.
TextEntering(c) == IF c = <<>> THEN Searching ELSE c

\* The text goes to the passes that follow as it came.
contentWithCursor_withoutUpgrade(c) ==
    LET text == IF c = <<>> THEN Searching ELSE c
    IN preprocessLaTeX(replaceThinkToSection(text))

contentWithCursor(c) ==
    LET text == TextEntering(c)
        nextText == replaceTextByOldReg(text)
    IN preprocessLaTeX(replaceThinkToSection(nextText))

(***************************************************************************)
(* The document tree (hast) and the tree builder: react-markdown's parse   *)
(* of one paragraph of inline content.                                     *)
(***************************************************************************)
Text(value) ==
    [type |-> "text", tagName |-> "", value |-> value, children |-> <<>>]

Raw(value) ==
    [type |-> "raw", tagName |-> "", value |-> value, children |-> <<>>]

Element(tagName, children) ==
    [type |-> "element", tagName |-> tagName, value |-> <<>>,
     children |-> children]

Root(children) ==
    [type |-> "root", tagName |-> "", value |-> <<>>, children |-> children]

\* Raw-HTML tokens of an answer: opening tags, closing tags, and a script.
OpenTags == {"<code>", "<section>"}
CloseTags == {"</code>", "</section>"}
RawTokens == OpenTags \cup CloseTags \cup {"<script>"}

TagOf(token) == IF token \in {"<code>", "</code>"} THEN "code" ELSE "section"

\* The first position >= i of a token in S, 0 when there is none.
RECURSIVE IndexFrom(_, _, _)
IndexFrom(text, i, S) ==
    IF i > Len(text) THEN 0
    ELSE IF text[i] \in S THEN i ELSE IndexFrom(text, i + 1, S)

\* The end of the run of plain tokens that starts at i.
RECURSIVE TextRunEnd(_, _)
TextRunEnd(text, i) ==
    IF i <= Len(text) /\ text[i] \notin RawTokens /\ text[i] # "backtick"
    THEN TextRunEnd(text, i + 1) ELSE i - 1

\* Append a text value to a list of inline nodes, merging adjacent text.
AppendText(nodes, value) ==
    IF nodes # <<>> /\ nodes[Len(nodes)].type = "text"
    THEN [nodes EXCEPT ![Len(nodes)] = Text(@.value \o value)]
    ELSE Append(nodes, Text(value))

\* Inline parse: a pair of backticks is a code span whose content is literal
\* text, a raw-HTML token is a raw node, everything else is text.
RECURSIVE Inlines(_, _, _)
Inlines(text, i, acc) ==
    IF i > Len(text) THEN acc
    ELSE IF text[i] = "backtick"
    THEN LET j == IndexFrom(text, i + 1, {"backtick"})
         IN IF j > i + 1
            THEN Inlines(text, j + 1,
                     Append(acc, Element("code", <<Text(SubSeq(text, i + 1, j - 1))>>)))
            ELSE Inlines(text, i + 1, AppendText(acc, <<"backtick">>))
    ELSE IF text[i] \in RawTokens
    THEN Inlines(text, i + 1, Append(acc, Raw(<<text[i]>>)))
    ELSE LET e == TextRunEnd(text, i)
         IN Inlines(text, e + 1, AppendText(acc, SubSeq(text, i, e)))

Markdown(text) ==
    IF text = <<>> THEN Root(<<>>)
    ELSE Root(<<Element("p", Inlines(text, 1, <<>>))>>)

(***************************************************************************)
(* rehypeWrapReference / wrapTextTransform, lines 85-100.  visitParents    *)
(* walks the tree in pre-order; after the visitor has run on a node the    *)
(* walk descends into the children the node has then.                      *)
(***************************************************************************)
RECURSIVE visitParents(_, _)
visitParents(node, latestAncestorTag) ==
    IF node.type = "text"
    THEN IF latestAncestorTag # "custom-typography" /\ latestAncestorTag # "code"
         THEN \* node.type, node.tagName, node.children are assigned
              [type |-> "element", tagName |-> "custom-typography",
               value |-> node.value,
               children |-> <<visitParents(Text(node.value), "custom-typography")>>]
         ELSE node
    ELSE [node EXCEPT !.children =
             [i \in DOMAIN node.children |->
                 visitParents(node.children[i], node.tagName)]]

wrapTextTransform(tree) == visitParents(tree, "")

(***************************************************************************)
(* The same transform on the objects themselves.  The tree is a heap of    *)
(* objects, heap[id], whose children are object ids; the visitor of lines  *)
(* 88-97 assigns to the fields of the object it is given.                  *)
(***************************************************************************)
HeapNode(type, tagName, value, properties, children) ==
    [type |-> type, tagName |-> tagName, value |-> value,
     properties |-> properties, children |-> children]

\* The heap after a tree is laid out in it, children before their parent,
\* and the id of the tree's root.
RECURSIVE Alloc(_, _), AllocAll(_, _, _)
Alloc(h, node) ==
    LET kids == AllocAll(h, node.children, <<>>)
        object == HeapNode(node.type, node.tagName, node.value,
                           IF node.type = "element" THEN "{}" ELSE Undefined,
                           kids.ids)
    IN [heap |-> Append(kids.heap, object), id |-> Len(kids.heap) + 1]

AllocAll(h, nodes, ids) ==
    IF nodes = <<>> THEN [heap |-> h, ids |-> ids]
    ELSE LET first == Alloc(h, Head(nodes))
         IN AllocAll(first.heap, Tail(nodes), Append(ids, first.id))

\* The tree that hangs from an object.
RECURSIVE TreeAt(_, _)
TreeAt(h, id) ==
    [type |-> h[id].type, tagName |-> h[id].tagName, value |-> h[id].value,
     children |-> [i \in DOMAIN h[id].children |-> TreeAt(h, h[id].children[i])]]

\* Every text is wrapped, whatever its parent.
visitor_noSkip(h, id, latestAncestorTag) ==
    Append([h EXCEPT ![id] = HeapNode("element", "custom-typography", @.value,
                                      "{}", <<Len(h) + 1>>)],
           HeapNode("text", "", h[id].value, Undefined, <<>>))

\* Only the code test of the two.
visitor_onlyCode(h, id, latestAncestorTag) ==
    IF latestAncestorTag # "code"
    THEN Append([h EXCEPT ![id] = HeapNode("element", "custom-typography",
                                           @.value, "{}", <<Len(h) + 1>>)],
                HeapNode("text", "", h[id].value, Undefined, <<>>))
    ELSE h

\* The callback of lines 87-98 on the text object id, whose latest ancestor
\* has the given tagName: the heap when it returns.
visitor(h, id, latestAncestorTag) ==
    IF latestAncestorTag # "custom-typography" /\ latestAncestorTag # "code"
    THEN \* node.type, node.tagName, node.properties, node.children are
         \* assigned; the child is a new object
         Append([h EXCEPT ![id] = HeapNode("element", "custom-typography",
                                           @.value, "{}", <<Len(h) + 1>>)],
                HeapNode("text", "", h[id].value, Undefined, <<>>))
    ELSE h

\* No run.
IdleWalk ==
    [heap |-> <<>>, root |-> 0, agenda |-> <<>>, pass |-> 0, input |-> <<>>,
     first |-> <<>>]

\* wrapTextTransform(tree) is called: visitParents is about to visit the root.
StartWalk(tree) ==
    LET laid == Alloc(<<>>, tree)
    IN [heap |-> laid.heap, root |-> laid.id,
        agenda |-> <<[node |-> laid.id, parent |-> 0]>>,
        pass |-> 1, input |-> laid.heap, first |-> <<>>]

\* More objects than any run of the transform allocates.
HeapCap(w) == 3 * Len(w.input)

(***************************************************************************)
(* rehypeRaw: the raw nodes are parsed as HTML together with the elements  *)
(* around them, so an opening tag adopts the siblings up to its closing    *)
(* tag (to the end of the parent when it is never closed).                 *)
(***************************************************************************)
\* The first position of a raw node holding token t, 0 when there is none.
RECURSIVE IndexOfRaw(_, _, _)
IndexOfRaw(nodes, i, t) ==
    IF i > Len(nodes) THEN 0
    ELSE IF nodes[i].type = "raw" /\ nodes[i].value = <<t>> THEN i
         ELSE IndexOfRaw(nodes, i + 1, t)

CloseOf(token) == IF token = "<code>" THEN "</code>" ELSE "</section>"

RECURSIVE Reparse(_)
Reparse(nodes) ==
    IF nodes = <<>> THEN <<>>
    ELSE LET h == Head(nodes)
             rest == Tail(nodes)
         IN IF h.type = "raw" /\ h.value[1] \in OpenTags
            THEN LET j == IndexOfRaw(rest, 1, CloseOf(h.value[1]))
                     inner == IF j = 0 THEN rest ELSE SubSeq(rest, 1, j - 1)
                     after == IF j = 0 THEN <<>> ELSE SubSeq(rest, j + 1, Len(rest))
                 IN <<Element(TagOf(h.value[1]), Reparse(inner))>> \o Reparse(after)
            ELSE IF h.type = "raw" /\ h.value[1] \in CloseTags
            THEN Reparse(rest)
            ELSE IF h.type = "raw"
            THEN <<Element("script", <<>>)>> \o Reparse(rest)
            ELSE IF h.type = "text"
            THEN <<h>> \o Reparse(rest)
            ELSE <<[h EXCEPT !.children = Reparse(h.children)]>> \o Reparse(rest)

rehypeRaw(tree) == [tree EXCEPT !.children = Reparse(tree.children)]

\* rehypePlugins={[rehypeWrapReference, rehypeKatex, rehypeRaw]}, line 243
\* (rehypeKatex rewrites math nodes only; the trees here hold none).
rehypePlugins(tree) == rehypeRaw(wrapTextTransform(tree))

(***************************************************************************)
(* The components, lines 246-452: custom-typography renders its text       *)
(* through renderReference, every other element renders its children.      *)
(***************************************************************************)
RECURSIVE components(_, _, _)
components(ref, thumbnails, node) ==
    IF node.type = "text" THEN TextNode(node.value)
    ELSE IF node.type = "element" /\ node.tagName = "custom-typography"
    THEN [type |-> "custom-typography", text |-> node.children[1].value,
          children |-> renderReference(ref, thumbnails, node.children[1].value)]
    ELSE [type |-> node.type, tagName |-> node.tagName,
          children |-> [i \in DOMAIN node.children |->
                           components(ref, thumbnails, node.children[i])]]

\* The hast tree the components are applied to.
Hast(c) == rehypePlugins(Markdown(contentWithCursor(c)))

\* One render of the component, lines 241-456.
MarkdownContent(c, ref, thumbnails) == components(ref, thumbnails, Hast(c))

(***************************************************************************)
(* useMemo and useCallback: a cell keeps what was computed in the render   *)
(* in which its dependency list last changed.                              *)
(***************************************************************************)
useMemo(cell, deps, value) ==
    IF cell.deps = deps THEN cell ELSE [deps |-> deps, value |-> value]

\* The dependency list without content.
contentWithCursorDeps_withoutContent(c) == <<>>

\* [content, t], line 58 (t does not change).
contentWithCursorDeps(c) == <<c>>

\* [clickDocumentButton], line 82.
handleDocumentButtonClickDeps(callback) == <<callback>>

\* [fileThumbnails, reference], line 125.
getReferenceInfoDeps(thumbnails, ref) == <<thumbnails, ref>>

\* [getReferenceInfo, handleDocumentButtonClick], line 197.
getPopoverContentDeps(info, handle) == <<info, handle>>

\* [getPopoverContent, getReferenceInfo, handleDocumentButtonClick], line 238.
renderReferenceDeps(popover, info, handle) == <<popover, info, handle>>

\* What each function closes over.
HandleClosure(callback) == [clickDocumentButton |-> callback]

InfoClosure(thumbnails, ref) == [fileThumbnails |-> thumbnails, reference |-> ref]

PopoverClosure(info, handle) ==
    [getReferenceInfo |-> info, handleDocumentButtonClick |-> handle]

RenderClosure(popover, info, handle) ==
    [getPopoverContent |-> popover, getReferenceInfo |-> info,
     handleDocumentButtonClick |-> handle]

\* The cells after the first render.
Mount(c, ref, thumbnails, callback) ==
    LET handle == HandleClosure(callback)
        info == InfoClosure(thumbnails, ref)
        popover == PopoverClosure(info, handle)
    IN [contentWithCursor |->
            [deps |-> contentWithCursorDeps(c), value |-> contentWithCursor(c)],
        handleDocumentButtonClick |->
            [deps |-> handleDocumentButtonClickDeps(callback), value |-> handle],
        getReferenceInfo |->
            [deps |-> getReferenceInfoDeps(thumbnails, ref), value |-> info],
        getPopoverContent |->
            [deps |-> getPopoverContentDeps(info, handle), value |-> popover],
        renderReference |->
            [deps |-> renderReferenceDeps(popover, info, handle),
             value |-> RenderClosure(popover, info, handle)]]

\* The cells after a render with new props or new hook data.
Render(h, c, ref, thumbnails, callback) ==
    LET text == useMemo(h.contentWithCursor, contentWithCursorDeps(c),
                        contentWithCursor(c))
        handle == useMemo(h.handleDocumentButtonClick,
                          handleDocumentButtonClickDeps(callback),
                          HandleClosure(callback))
        info == useMemo(h.getReferenceInfo, getReferenceInfoDeps(thumbnails, ref),
                        InfoClosure(thumbnails, ref))
        popover == useMemo(h.getPopoverContent,
                           getPopoverContentDeps(info.value, handle.value),
                           PopoverClosure(info.value, handle.value))
        render == useMemo(h.renderReference,
                          renderReferenceDeps(popover.value, info.value, handle.value),
                          RenderClosure(popover.value, info.value, handle.value))
    IN [contentWithCursor |-> text, handleDocumentButtonClick |-> handle,
        getReferenceInfo |-> info, getPopoverContent |-> popover,
        renderReference |-> render]

\* What the cells put on screen: the tree of the memoized text, rendered by
\* the memoized renderReference.
Screen(h) ==
    components(h.renderReference.value.getReferenceInfo.reference,
               h.renderReference.value.getReferenceInfo.fileThumbnails,
               rehypePlugins(Markdown(h.contentWithCursor.value)))

\* What is on screen in the current state.
Rendered == Screen(hooks)

(***************************************************************************)
(* Inputs: stream deltas and reference tables.                             *)
(***************************************************************************)
\* Deltas of an answer that cites: plain text, whole markers, marker pieces.
TextDeltas ==
    {<<"x">>, <<"[ID:", "0", "]">>, <<"[ID:", "1", "]">>, <<"[ID:">>, <<"1">>,
     <<"]">>}

\* Deltas of an answer with code spans and raw HTML.
TreeDeltas ==
    {<<"x">>, <<"[ID:", "0", "]">>, <<"backtick">>, <<"<code>">>, <<"</code>">>,
     <<"<script>">>}

\* Deltas of an answer that cites in the legacy grammar, whole and in pieces.
StreamDeltas ==
    {<<"x">>, <<"##", "1", "$$">>, <<"[ID:", "0", "]">>, <<"##", "0">>, <<"$$">>}

\* Trees handed to the transform: texts under elements of every tag, up to
\* MaxDepth elements deep, an element having no child, one child, or one
\* child and a text after it.
WalkTags == {"p", "em", "code"}

KidsOver(S) ==
    {<<>>} \cup {<<a>> : a \in S} \cup {<<a, Text(<<"x">>)>> : a \in S}

RECURSIVE TreesOfDepth(_)
TreesOfDepth(d) ==
    IF d = 0 THEN {Text(<<"[ID:", "0", "]">>)}
    ELSE LET below == TreesOfDepth(d - 1)
         IN below \cup {Element(t, k) : t \in WalkTags, k \in KidsOver(below)}

WalkInputs == {Root(k) : k \in KidsOver(TreesOfDepth(MaxDepth))}

\* Answers that hold one citation.
CiteContents == {<<"[ID:", "0", "]">>, <<"[ID:", "1", "]">>, <<"[ID:", "2", "]">>}

PdfName == <<"report", ".", "pdf">>
UpperPdfName == <<"scan", ".", "PDF">>
DocxName == <<"notes", ".", "docx">>

TextChunk == Chunk("c1", "d1", <<"t1", "<b>">>, Undefined, "text")
ImageChunk == Chunk("c2", "d2", <<"t2">>, "img1", "image")
ScriptChunk == Chunk("c3", "d2", <<"<script>", "t3", "onerror=">>, "img3", "")
OrphanChunk == Chunk("c4", "missing", <<"t4", "javascript:">>, Undefined, "text")
OrphanImageChunk == Chunk("c5", "missing", <<"t5">>, Undefined, "image")
BareChunk == Chunk(Undefined, Undefined, <<>>, Undefined, Undefined)

ChunkPool ==
    {TextChunk, ImageChunk, ScriptChunk, OrphanChunk, OrphanImageChunk, BareChunk}

\* Values of reference.doc_aggs, <<kind, items>>: missing, or an array as
\* IReference declares it.
DocAggsPool ==
    {<<"undefined", <<>>>>,
     <<"array", <<>>>>,
     <<"array", <<DocAgg("d1", PdfName, "http://d1"),
                  DocAgg("d2", DocxName, "http://d2")>>>>,
     <<"array", <<DocAgg("d1", DocxName, Undefined),
                  DocAgg("d2", UpperPdfName, Undefined)>>>>,
     <<"array", <<DocAgg("d2", PdfName, Undefined),
                  DocAgg("d1", DocxName, "javascript:")>>>>,
     <<"array", <<DocAgg(Undefined, PdfName, "http://u"),
                  DocAgg("d1", <<"README">>, "")>>>>}

ReferencesOver(chunkPool, docAggsPool) ==
    {Reference("array", cs, d[1], d[2]) :
        cs \in SeqsUpTo(chunkPool, MaxChunks), d \in docAggsPool}
    \cup {Reference("undefined", <<>>, d[1], d[2]) : d \in docAggsPool}

\* Tables of an answer whose text is the subject.
TextReferences ==
    ReferencesOver({TextChunk, ImageChunk},
                   {<<"array", <<DocAgg("d1", PdfName, "http://d1")>>>>})

CiteReferences == ReferencesOver(ChunkPool, DocAggsPool)

\* Tables of a streaming answer: the table grows and its chunks are reordered.
StreamReferences ==
    {Reference("array", cs, "array", <<DocAgg("d1", PdfName, "http://d1")>>) :
        cs \in {<<TextChunk>>, <<TextChunk, ImageChunk>>, <<ImageChunk, TextChunk>>}}

\* Deltas of an answer that cites nothing.
PlainDeltas == {<<"x">>, <<"$$">>}

\* Tables that arrive with document aggregates.
ArrivingReferences ==
    {Reference("array", <<TextChunk>>, "array", docs) :
        docs \in {<<DocAgg("d1", PdfName, "http://d1")>>,
                  <<DocAgg("d1", PdfName, "http://d1"),
                    DocAgg("d2", DocxName, "http://d2")>>,
                  <<DocAgg("d2", DocxName, "http://d2"),
                    DocAgg("d1", PdfName, "http://d1")>>}}

\* Tables that replace the one shown: the same, no table at all, and tables
\* whose doc_aggs is missing, not an array, or an empty array.
ReplacingReferences ==
    ArrivingReferences
    \cup {UndefinedReference,
          Reference("array", <<TextChunk>>, "undefined", <<>>),
          Reference("array", <<TextChunk>>, "object", <<>>),
          Reference("array", <<TextChunk>>, "array", <<>>)}

\* Thumbnails the server may return for a document.
Thumbnails == {"data:image/png", "javascript:"}

(***************************************************************************)
(* The component as a state machine.                                       *)
(***************************************************************************)
InitWith(contents) ==
    /\ content \in contents
    /\ updates = 0
    /\ reference = UndefinedReference
    /\ clickDocumentButton \in BOOLEAN
    /\ documentIds = <<>>
    /\ fileThumbnails = <<>>
    /\ effect = Idle
    /\ hooks = Mount(content, reference, fileThumbnails, clickDocumentButton)

Init == InitWith({<<>>}) /\ walk = IdleWalk

\* The parent appends a stream delta to the answer: a new content prop.
SetContent(deltas) ==
    /\ updates < MaxLen
    /\ \E d \in deltas : content' = content \o d
    /\ updates' = updates + 1
    /\ effect' = Idle
    /\ UNCHANGED <<reference, clickDocumentButton, documentIds, fileThumbnails>>
    /\ hooks' = Render(hooks, content', reference', fileThumbnails',
                       clickDocumentButton')
    /\ UNCHANGED walk

\* The ids are handed over last aggregate first.
DocumentIdsOf_reversed(ref) ==
    IF ~ref.isUndefined /\ ref.doc_aggs.kind = "array"
    THEN [i \in DOMAIN ref.doc_aggs.items |->
             ref.doc_aggs.items[Len(ref.doc_aggs.items) + 1 - i].doc_id]
    ELSE <<>>

\* The effect of lines 60-63.
DocumentIdsOf(ref) ==
    IF ~ref.isUndefined /\ ref.doc_aggs.kind = "array"
    THEN [i \in DOMAIN ref.doc_aggs.items |-> ref.doc_aggs.items[i].doc_id]
    ELSE <<>>

\* The reference table of the answer arrives (a new reference prop), and the
\* effect of lines 60-63 runs; a changed id list is a new query, whose data
\* starts empty.
SetReference(references) ==
    /\ reference.isUndefined
    /\ \E r \in references :
          /\ reference' = r
          /\ documentIds' = DocumentIdsOf(r)
    /\ fileThumbnails' = IF documentIds' = documentIds THEN fileThumbnails ELSE <<>>
    /\ effect' = Idle
    /\ UNCHANGED <<content, updates, clickDocumentButton>>
    /\ hooks' = Render(hooks, content', reference', fileThumbnails',
                       clickDocumentButton')
    /\ UNCHANGED walk

\* A later reference table replaces the one shown (the parent refetches the
\* conversation while the answer streams), and the effect of lines 60-63 runs.
UpdateReference(references) ==
    /\ ~reference.isUndefined
    /\ \E r \in references \ {reference} :
          /\ reference' = r
          /\ documentIds' = DocumentIdsOf(r)
    /\ fileThumbnails' = IF documentIds' = documentIds THEN fileThumbnails ELSE <<>>
    /\ effect' = Idle
    /\ UNCHANGED <<content, updates, clickDocumentButton>>
    /\ hooks' = Render(hooks, content', reference', fileThumbnails',
                       clickDocumentButton')
    /\ UNCHANGED walk

\* The thumbnails of the ids asked for arrive.
ThumbnailsFetched ==
    /\ documentIds # <<>>
    /\ fileThumbnails = <<>>
    /\ \E t \in Thumbnails :
          fileThumbnails' =
              [id \in {documentIds[i] : i \in DOMAIN documentIds} |-> t]
    /\ effect' = Idle
    /\ UNCHANGED <<content, updates, reference, clickDocumentButton, documentIds>>
    /\ hooks' = Render(hooks, content', reference', fileThumbnails',
                       clickDocumentButton')
    /\ UNCHANGED walk

\* The annotations on screen, in document order, each with whether one of
\* its ancestors is a code element.
RECURSIVE AnnotationsIn(_, _)
AnnotationsIn(node, inCode) ==
    IF IsAnnotation(node) THEN <<[node |-> node, inCode |-> inCode]>>
    ELSE IF node.type = "text" THEN <<>>
    ELSE LET below == inCode \/ (node.type = "element" /\ node.tagName = "code")
         IN Flatten([i \in DOMAIN node.children |->
                        AnnotationsIn(node.children[i], below)])

Annotations == AnnotationsIn(Rendered, FALSE)

Threw ==
    LET onScreen == Annotations
    IN \E i \in DOMAIN onScreen : onScreen[i].node.threw

\* The click handlers on screen: an inline image's onClick, a popover's
\* document link.
HandlerOf(a) ==
    IF a.type = "Image" THEN a.onClick ELSE a.content.link.onClick

Clickable(a) == IF a.type = "Image" THEN TRUE ELSE a.content.link.present

\* What activating each citation on screen does (nothing is on screen when
\* the render threw).
Activations ==
    LET onScreen == Annotations
        callback == hooks.renderReference.value
                         .handleDocumentButtonClick.clickDocumentButton
    IN IF \E i \in DOMAIN onScreen : onScreen[i].node.threw THEN {}
       ELSE {[via |-> onScreen[i].node.type,
              did |-> onClick(HandlerOf(onScreen[i].node), callback),
              calls |-> Calls(HandlerOf(onScreen[i].node), callback)] :
                i \in {j \in DOMAIN onScreen : Clickable(onScreen[j].node)}}

\* The user activates a citation.
Activate ==
    /\ effect' \in Activations
    /\ UNCHANGED <<content, updates, reference, clickDocumentButton, documentIds,
                   fileThumbnails, hooks, walk>>

\* An answer streams in and its reference table arrives.
Next == SetContent(TextDeltas) \/ SetReference(TextReferences)

Spec == Init /\ [][Next]_vars

\* An answer with code spans and raw HTML streams in.
NextTree == SetContent(TreeDeltas) \/ SetReference(TextReferences)

SpecTree == Init /\ [][NextTree]_vars

\* A finished answer with one citation: its table arrives, thumbnails load,
\* the user activates the citation.
NextCite == SetReference(CiteReferences) \/ ThumbnailsFetched \/ Activate

SpecCite == InitWith(CiteContents) /\ walk = IdleWalk /\ [][NextCite]_vars

\* An answer with legacy markers streams in while its table arrives and is
\* replaced, and thumbnails load.
NextStream ==
    \/ SetContent(StreamDeltas)
    \/ SetReference(StreamReferences)
    \/ UpdateReference(StreamReferences)
    \/ ThumbnailsFetched

SpecStream == Init /\ [][NextStream]_vars

\* An answer without citations streams in while its table arrives and is
\* replaced or withdrawn, and thumbnails load.
NextSync ==
    \/ SetContent(PlainDeltas)
    \/ SetReference(ArrivingReferences)
    \/ UpdateReference(ReplacingReferences)
    \/ ThumbnailsFetched

SpecSync == Init /\ [][NextSync]_vars

\* visitParents visits the next object: the visitor runs when it is a text,
\* then the walk goes down into the children the object has by then.
Visit ==
    /\ walk.agenda # <<>>
    /\ Len(walk.heap) < HeapCap(walk)
    /\ walk' =
          LET top == Head(walk.agenda)
              tag == IF top.parent = 0 THEN ""
                     ELSE walk.heap[top.parent].tagName
              after == IF walk.heap[top.node].type = "text"
                       THEN visitor(walk.heap, top.node, tag)
                       ELSE walk.heap
              kids == after[top.node].children
          IN [walk EXCEPT
                !.heap = after,
                !.agenda = [i \in DOMAIN kids |->
                               [node |-> kids[i], parent |-> top.node]]
                           \o Tail(walk.agenda)]
    /\ UNCHANGED <<content, updates, reference, clickDocumentButton, documentIds,
                   fileThumbnails, effect, hooks>>

\* The transform has returned and is run again on the tree it left.
RunAgain ==
    /\ walk.pass = 1
    /\ walk.agenda = <<>>
    /\ walk' = [walk EXCEPT !.pass = 2, !.first = walk.heap,
                            !.agenda = <<[node |-> walk.root, parent |-> 0]>>]
    /\ UNCHANGED <<content, updates, reference, clickDocumentButton, documentIds,
                   fileThumbnails, effect, hooks>>

InitWalk ==
    /\ InitWith({<<>>})
    /\ clickDocumentButton = FALSE
    /\ walk \in {StartWalk(tree) : tree \in WalkInputs}

NextWalk == Visit \/ RunAgain

\* A run always goes on until visitParents returns.
SpecWalk == InitWalk /\ [][NextWalk]_vars /\ WF_vars(NextWalk)

(***************************************************************************)
(* Vocabulary of the properties.                                           *)
(***************************************************************************)
\* reference?.chunks ?? []
ChunksOf(ref) ==
    IF ref.isUndefined \/ ref.chunks.kind = "undefined" THEN <<>>
    ELSE ref.chunks.items

ChunksLength == Len(ChunksOf(reference))

\* chunks[k] for a 0-based index k.
ChunkAt(k) ==
    IF k + 1 \in DOMAIN ChunksOf(reference) THEN ChunksOf(reference)[k + 1]
    ELSE UndefinedChunk

\* <<i, j>>: text[i..j] is a marker of the current grammar.
MarkerSpans(text) ==
    {s \in (DOMAIN text) \X (DOMAIN text) :
        /\ s[2] > s[1] + 1
        /\ text[s[1]] = "[ID:"
        /\ text[s[2]] = "]"
        /\ \A m \in (s[1] + 1)..(s[2] - 1) : text[m] \in Digits}

\* The n-th marker of the text, left to right.
NthSpan(text, n) ==
    CHOOSE s \in MarkerSpans(text) :
        Cardinality({r \in MarkerSpans(text) : r[1] < s[1]}) = n - 1

\* The chunk index a marker names.
IndexOfSpan(text, s) == Number(SubSeq(text, s[1] + 1, s[2] - 1))

ValidSpans(text) ==
    {s \in MarkerSpans(text) : IndexOfSpan(text, s) < ChunksLength}

\* The custom-typography elements on screen.
RECURSIVE CustomTypographiesIn(_)
CustomTypographiesIn(node) ==
    IF node.type = "custom-typography" THEN <<node>>
    ELSE IF node.type = "text" \/ IsAnnotation(node) THEN <<>>
    ELSE Flatten([i \in DOMAIN node.children |->
                    CustomTypographiesIn(node.children[i])])

CustomTypographies == CustomTypographiesIn(Rendered)

\* The same, as a set.
OnScreen ==
    LET cts == CustomTypographies
    IN {cts[c] : c \in DOMAIN cts}

AnnotationsOf(ct) == SelectSeq(ct.children, IsAnnotation)

IsTextNode(node) == node.type = "text"

TextSegmentsOf(ct) == SelectSeq(ct.children, IsTextNode)

\* The annotations of one custom-typography element, each with the chunk
\* index its marker names.
CitationsOf(ct) ==
    LET made == AnnotationsOf(ct)
    IN [n \in DOMAIN made |->
          [node |-> made[n],
           index |-> IndexOfSpan(ct.text, NthSpan(ct.text, n))]]

\* Every citation on screen.
Citations ==
    LET cts == CustomTypographies
    IN Flatten([c \in DOMAIN cts |-> CitationsOf(cts[c])])

\* The same, as a set.
CitationSet ==
    LET cs == Citations
    IN {cs[i] : i \in DOMAIN cs}

\* Every chunk index a marker can name in this model, valid or not.
ChunkIndexes == 0..(MaxChunks + 1)

\* The items of reference.doc_aggs (none when it is missing).
DocAggsOf(ref) ==
    IF ref.isUndefined \/ ref.doc_aggs.kind # "array" THEN <<>>
    ELSE ref.doc_aggs.items

\* The annotation is the one the renderer draws for this chunk: inline media
\* with the chunk's image, or a popover over the chunk's content.
BuiltFrom(a, chunk) ==
    IF showImage(chunk.doc_type)
    THEN a.type = "Image" /\ a.id = chunk.image_id
    ELSE /\ a.type = "Popover"
         /\ a.content.key = chunk.id
         /\ a.content.html = DOMPurify_sanitize(chunk.content)

NoMarkerLeft(ct) ==
    LET segments == TextSegmentsOf(ct)
    IN \A i \in DOMAIN segments : MarkerSpans(segments[i].value) = {}

\* text holds marker as a contiguous run.
Holds(text, marker) ==
    \E i \in 1..(Len(text) - Len(marker) + 1) :
        SubSeq(text, i, i + Len(marker) - 1) = marker

(***************************************************************************)
(* C1.  Exactly-once annotation, as claimed: a text with k markers whose   *)
(* index is below chunks.length renders to exactly k annotation elements,  *)
(* the i-th built from the chunk the i-th marker names, and no marker is   *)
(* left in a text segment.                                                 *)
(***************************************************************************)
C1_ExactlyOncePerValidMarker ==
    \A ct \in OnScreen :
        LET made == AnnotationsOf(ct)
            valid == ValidSpans(ct.text)
        IN /\ Len(made) = Cardinality(valid)
           /\ \A n \in 1..Cardinality(valid) :
                 LET s == CHOOSE v \in valid :
                              Cardinality({r \in valid : r[1] < v[1]}) = n - 1
                 IN n \in DOMAIN made
                    /\ BuiltFrom(made[n], ChunkAt(IndexOfSpan(ct.text, s)))
           /\ NoMarkerLeft(ct)

\* C1, amended: every marker of the current grammar, whatever its index,
\* renders to exactly one annotation element; the i-th annotation is built
\* from the chunk the i-th marker names (the absent chunk when the index is
\* chunks.length or more); no marker is left in a text segment.
C1_ExactlyOncePerMarker ==
    \A ct \in OnScreen :
        LET made == AnnotationsOf(ct)
        IN /\ Len(made) = Cardinality(MarkerSpans(ct.text))
           /\ \A n \in DOMAIN made :
                 BuiltFrom(made[n],
                           ChunkAt(IndexOfSpan(ct.text, NthSpan(ct.text, n))))
           /\ NoMarkerLeft(ct)

\* Two markers naming different chunks of the table, both rendered.
C1_Witness ==
    \E ct \in OnScreen :
        /\ Cardinality(ValidSpans(ct.text)) >= 2
        /\ Len(AnnotationsOf(ct)) = Cardinality(ValidSpans(ct.text))
        /\ \E s, r \in ValidSpans(ct.text) :
              ChunkAt(IndexOfSpan(ct.text, s)) # ChunkAt(IndexOfSpan(ct.text, r))

(***************************************************************************)
(* C6.  Pass-through, as claimed: every marker whose index is              *)
(* chunks.length or more stays in the output as its literal text and is    *)
(* not replaced by an annotation element.                                  *)
(***************************************************************************)
C6_InvalidMarkerPassesThrough ==
    \A ct \in OnScreen :
        LET segments == TextSegmentsOf(ct)
        IN \A s \in MarkerSpans(ct.text) \ ValidSpans(ct.text) :
              \E i \in DOMAIN segments :
                  Holds(segments[i].value, SubSeq(ct.text, s[1], s[2]))

\* C6, amended: every marker whose index is chunks.length or more is
\* replaced by a popover annotation with nothing in it (empty content, no
\* image, no document link), and its text is in no text segment.
C6_InvalidMarkerBecomesEmptyPopover ==
    \A ct \in OnScreen :
        LET made == AnnotationsOf(ct)
        IN /\ Len(made) = Cardinality(MarkerSpans(ct.text))
           /\ \A n \in DOMAIN made :
                 IndexOfSpan(ct.text, NthSpan(ct.text, n)) >= ChunksLength =>
                    /\ made[n].type = "Popover"
                    /\ made[n].content.html = <<>>
                    /\ ~made[n].content.hasImage
                    /\ ~made[n].content.link.present
           /\ NoMarkerLeft(ct)

\* A marker past the end of a table that has chunks, beside a valid one.
C6_Witness ==
    \E ct \in OnScreen :
        /\ ChunksLength > 0
        /\ ValidSpans(ct.text) # {}
        /\ MarkerSpans(ct.text) \ ValidSpans(ct.text) # {}
        /\ Len(AnnotationsOf(ct)) = Cardinality(MarkerSpans(ct.text))

(***************************************************************************)
(* C2.  Skip invariant over the whole plugin chain: no annotation element  *)
(* of the rendered tree lies inside a code element, whether the code       *)
(* element comes from markdown or from raw HTML parsed by rehypeRaw.       *)
(***************************************************************************)
C2_NoAnnotationInsideCode ==
    LET onScreen == Annotations
    IN \A i \in DOMAIN onScreen : ~onScreen[i].inCode

(***************************************************************************)
(* C3.  Injection safety of the popover: for every chunk index, what goes  *)
(* to the popover's raw-HTML sink is the sanitizer's output on the chunk's *)
(* content (on the empty string for an absent chunk), and it holds no      *)
(* executable markup.                                                      *)
(***************************************************************************)
C3_PopoverSinkIsSanitized ==
    /\ \A k \in ChunkIndexes :
          LET popover == getPopoverContent(reference, fileThumbnails, k)
          IN /\ popover.html = DOMPurify_sanitize(ChunkAt(k).content)
             /\ ~HasExecutable(popover.html)
    /\ \A c \in CitationSet :
          c.node.type = "Popover" =>
             /\ c.node.content.html = DOMPurify_sanitize(ChunkAt(c.index).content)
             /\ ~HasExecutable(c.node.content.html)

\* A popover on screen over a chunk whose content bears a script.
C3_Witness ==
    \E c \in CitationSet :
        /\ c.node.type = "Popover"
        /\ HasExecutable(ChunkAt(c.index).content)
        /\ c.node.content.html # <<>>

(***************************************************************************)
(* C4.  Every externally sourced string that reaches an HTML-interpreting  *)
(* or navigation sink is the sanitizer's output: the raw HTML of the       *)
(* answer that rehypeRaw parses, the popover content, the thumbnail used   *)
(* as an image source, the url given to window.open.                       *)
(***************************************************************************)
\* The raw-HTML values of a tree.
RECURSIVE RawValuesIn(_)
RawValuesIn(node) ==
    IF node.type = "raw" THEN {node.value}
    ELSE UNION {RawValuesIn(node.children[i]) : i \in DOMAIN node.children}

\* What rehypeRaw is given to parse in the current render.
RawHtmlSink == RawValuesIn(wrapTextTransform(Markdown(contentWithCursor(content))))

PopoverHtmlSink ==
    {c.node.content.html : c \in {d \in CitationSet : d.node.type = "Popover"}}

ImageSourceSink ==
    {<<c.node.content.link.imgSrc>> :
        c \in {d \in CitationSet :
                 IF d.node.type = "Popover"
                 THEN d.node.content.link.imgSrc # Undefined
                 ELSE FALSE}}

NavigationSink ==
    IF effect.did.kind = "window.open" THEN {<<effect.did.url>>} ELSE {}

C4_EverySinkIsSanitized ==
    \A v \in RawHtmlSink \cup PopoverHtmlSink \cup ImageSourceSink
              \cup NavigationSink :
        v = DOMPurify_sanitize(v)

C7_AbsentChunkIsInert ==
    /\ \A c \in CitationSet :
          c.index >= ChunksLength =>
             LET a == c.node
             IN /\ a.type = "Popover"
                /\ a.content.html = DOMPurify_sanitize(<<>>)
                /\ a.content.html = <<>>
                /\ ~a.content.hasImage
                /\ ~a.content.link.present
                /\ ~Clickable(a)
                /\ onClick(HandlerOf(a), clickDocumentButton) = NoEffect
    /\ (\A c \in CitationSet : c.index >= ChunksLength)
          => Activations = {} /\ effect = Idle

\* A citation past the end of a table that has chunks, and a document
\* aggregate without doc_id (the one find returns for the absent chunk).
C7_Witness ==
    /\ ChunksLength > 0
    /\ \E c \in CitationSet : c.index >= ChunksLength
    /\ \E d \in DOMAIN DocAggsOf(reference) :
          DocAggsOf(reference)[d].doc_id = Undefined

(***************************************************************************)
(* C8.  Render mode: a marker whose chunk's doc_type is visual media       *)
(* (showImage) renders as inline media carrying that chunk's image_id,     *)
(* every other marker as a citation popover; nothing but doc_type decides. *)
(***************************************************************************)
C8_RenderModeFollowsDocType ==
    \A c \in CitationSet :
        LET chunk == ChunkAt(c.index)
            a == c.node
        IN IF showImage(chunk.doc_type)
           THEN a.type = "Image" /\ a.id = chunk.image_id
           ELSE a.type = "Popover"

\* Inline media with the image of its chunk is on screen.
C8_Witness ==
    \E c \in CitationSet :
        /\ c.node.type = "Image"
        /\ c.node.id = "img1"
        /\ ChunkAt(c.index).doc_type = "image"

(***************************************************************************)
(* C9.  Orphan chunk: when the chunk exists and no document aggregate has  *)
(* its document_id, the popover shows the chunk's sanitized content and    *)
(* has no document link.                                                   *)
(***************************************************************************)
IsOrphan(chunk) ==
    /\ ~chunk.isUndefined
    /\ \A d \in DOMAIN DocAggsOf(reference) :
          DocAggsOf(reference)[d].doc_id # chunk.document_id

C9_OrphanHasContentAndNoLink ==
    /\ \A k \in ChunkIndexes :
          IsOrphan(ChunkAt(k)) =>
             LET popover == getPopoverContent(reference, fileThumbnails, k)
             IN /\ popover.html = DOMPurify_sanitize(ChunkAt(k).content)
                /\ ~popover.link.present
    /\ \A c \in CitationSet :
          (IsOrphan(ChunkAt(c.index)) /\ c.node.type = "Popover") =>
             /\ c.node.content.html = DOMPurify_sanitize(ChunkAt(c.index).content)
             /\ ~Clickable(c.node)

\* The popover of an orphan chunk is on screen, in a table that has
\* document aggregates.
C9_Witness ==
    \E c \in CitationSet :
        /\ ChunkAt(c.index) = OrphanChunk
        /\ c.node.type = "Popover"
        /\ c.node.content.html # <<>>
        /\ DocAggsOf(reference) # <<>>

(***************************************************************************)
(* C10.  Activation dispatch, as claimed: activating a citation's document *)
(* link opens the document's url when the document has one and its file    *)
(* type is directly viewable (the non-pdf branch of the code), and in       *)
(* every other case invokes clickDocumentButton(documentId, chunk).         *)
(***************************************************************************)
\* The first document aggregate with the chunk's document_id.
DocumentFor(chunk) ==
    LET docs == DocAggsOf(reference)
        hits == {d \in DOMAIN docs : docs[d].doc_id = chunk.document_id}
    IN docs[CHOOSE d \in hits : \A e \in hits : d <= e]

ClaimedDispatch(chunk) ==
    LET doc == DocumentFor(chunk)
    IN IF Truthy(doc.url) /\ getExtension(doc.doc_name) # "pdf"
       THEN WindowOpen(doc.url)
       ELSE ClickDocumentButton(doc.doc_id, chunk)

\* The links on screen: popovers that show a document link.
LinkCitations ==
    {c \in CitationSet :
        IF c.node.type = "Popover" THEN c.node.content.link.present ELSE FALSE}

C10_DispatchAsClaimed ==
    effect.via = "Popover" =>
       \E c \in LinkCitations : effect.did = ClaimedDispatch(ChunkAt(c.index))

\* C10, amended: when the document's file extension is not pdf the
\* activation opens the document's url if it has one and does nothing
\* otherwise; when the extension is pdf it invokes clickDocumentButton
\* (documentId, chunk) if the callback was supplied and does nothing
\* otherwise, whether or not the document has a url.
ActualDispatch(chunk) ==
    LET doc == DocumentFor(chunk)
    IN IF getExtension(doc.doc_name) # "pdf"
       THEN (IF Truthy(doc.url) THEN WindowOpen(doc.url) ELSE NoEffect)
       ELSE (IF clickDocumentButton THEN ClickDocumentButton(doc.doc_id, chunk)
             ELSE NoEffect)

C10_DispatchByExtension ==
    /\ effect.via = "Popover" =>
          \E c \in LinkCitations : effect.did = ActualDispatch(ChunkAt(c.index))
    /\ \A c \in LinkCitations :
          onClick(HandlerOf(c.node), clickDocumentButton)
             = ActualDispatch(ChunkAt(c.index))

\* The link of a document that is not a pdf and has no url was activated,
\* with the callback supplied: nothing happened.
C10_Witness ==
    /\ effect.via = "Popover"
    /\ effect.did = NoEffect
    /\ clickDocumentButton
    /\ \E c \in LinkCitations :
          LET doc == DocumentFor(ChunkAt(c.index))
          IN ~Truthy(doc.url) /\ getExtension(doc.doc_name) # "pdf"

(***************************************************************************)
(* C12.  Upgrade-then-resolve: in every render the legacy markers of the   *)
(* content are upgraded before the tree is built and before markers are    *)
(* resolved, so what is on screen is what the same content written with    *)
(* current markers renders to, and a legacy marker with index i below      *)
(* chunks.length is resolved to chunk i.                                   *)
(***************************************************************************)
\* <<i, j>>: text[i..j] is a marker of the legacy grammar.
LegacySpans(text) ==
    {s \in (DOMAIN text) \X (DOMAIN text) :
        /\ s[2] > s[1] + 1
        /\ text[s[1]] = "##"
        /\ text[s[2]] = "$$"
        /\ \A m \in (s[1] + 1)..(s[2] - 1) : text[m] \in Digits}

\* The text with the delimiters of every legacy marker written in the
\* current grammar.
Upgraded(text) ==
    LET legacy == LegacySpans(text)
    IN [i \in DOMAIN text |->
          IF \E s \in legacy : s[1] = i THEN "[ID:"
          ELSE IF \E s \in legacy : s[2] = i THEN "]"
          ELSE text[i]]

C12_UpgradeThenResolve ==
    /\ Rendered = MarkdownContent(Upgraded(content), reference, fileThumbnails)
    /\ \A s \in LegacySpans(content) :
          LET i == IndexOfSpan(content, s)
          IN i < ChunksLength =>
                \E c \in CitationSet :
                    c.index = i /\ BuiltFrom(c.node, ChunkAt(i))

\* A legacy marker naming the second chunk of a table of two different
\* chunks is on screen as the annotation of that chunk.
C12_Witness ==
    /\ ChunksLength = 2
    /\ ChunkAt(0) # ChunkAt(1)
    /\ \E s \in LegacySpans(content) : IndexOfSpan(content, s) = 1
    /\ \E c \in CitationSet : c.index = 1 /\ BuiltFrom(c.node, ChunkAt(1))

(***************************************************************************)
(* C16.  Streaming re-render independence: after any sequence of content   *)
(* and reference updates the text handed to the tree builder is the        *)
(* normalization of the latest content, every memoized function closes     *)
(* over the latest reference table, thumbnails and callback, and what is   *)
(* on screen is what a first render of the latest props would show.        *)
(***************************************************************************)
C16_LatestPropsOnly ==
    LET latestInfo == InfoClosure(fileThumbnails, reference)
        latestHandle == HandleClosure(clickDocumentButton)
        render == hooks.renderReference.value
    IN /\ hooks.contentWithCursor.value = contentWithCursor(content)
       /\ hooks.getReferenceInfo.value = latestInfo
       /\ hooks.handleDocumentButtonClick.value = latestHandle
       /\ render.getReferenceInfo = latestInfo
       /\ render.handleDocumentButtonClick = latestHandle
       /\ render.getPopoverContent = PopoverClosure(latestInfo, latestHandle)
       /\ hooks = Mount(content, reference, fileThumbnails, clickDocumentButton)
       /\ Rendered = MarkdownContent(content, reference, fileThumbnails)

\* Several renders were superseded: two deltas, a table, its thumbnails;
\* the answer cites.
C16_Witness ==
    /\ updates >= 2
    /\ ~reference.isUndefined
    /\ fileThumbnails # <<>>
    /\ CitationSet # {}

(***************************************************************************)
(* Vocabulary of the properties of a run of the transform.                 *)
(***************************************************************************)
\* visitParents has returned.
WalkReturned == walk.pass > 0 /\ walk.agenda = <<>>

\* The object whose child id is, 0 for the root.
ParentOf(h, id) ==
    IF \E p \in DOMAIN h : \E i \in DOMAIN h[p].children : h[p].children[i] = id
    THEN CHOOSE p \in DOMAIN h :
             \E i \in DOMAIN h[p].children : h[p].children[i] = id
    ELSE 0

\* The tag names of the ancestors of an object, at every depth.
RECURSIVE AncestorTags(_, _)
AncestorTags(h, id) ==
    LET p == ParentOf(h, id)
    IN IF p = 0 THEN {} ELSE {h[p].tagName} \cup AncestorTags(h, p)

SkipTags == {"code", "custom-typography"}

\* The values of the texts of a tree, in document order.
RECURSIVE TextValuesOf(_)
TextValuesOf(node) ==
    IF node.type = "text" THEN <<node.value>>
    ELSE Flatten([i \in DOMAIN node.children |-> TextValuesOf(node.children[i])])

\* The objects of the input that were texts.
InputTexts == {id \in DOMAIN walk.input : walk.input[id].type = "text"}

(***************************************************************************)
(* C13.  Resolver idempotence: a text that was wrapped is never matched    *)
(* again, in the same run or a later one: a custom-typography element has  *)
(* one child, a text, never a custom-typography element, and a second run  *)
(* of wrapTextTransform on the tree the first run left changes nothing.    *)
(***************************************************************************)
C13_WrapIsIdempotent ==
    /\ walk.pass = 2 => walk.heap = walk.first
    /\ \A id \in DOMAIN walk.heap :
          walk.heap[id].tagName = "custom-typography" =>
             /\ Len(walk.heap[id].children) = 1
             /\ walk.heap[walk.heap[id].children[1]].type = "text"
    /\ WalkReturned =>
          LET tree == TreeAt(walk.heap, walk.root)
          IN wrapTextTransform(tree) = tree

\* The second run has returned on a tree in which the first run wrapped a
\* text.
C13_Witness ==
    /\ walk.pass = 2
    /\ walk.agenda = <<>>
    /\ Len(walk.heap) > Len(walk.input)
    /\ \E id \in DOMAIN walk.heap : walk.heap[id].tagName = "custom-typography"

(***************************************************************************)
(* C14.  Skip rule over arbitrary trees, as claimed: a text that has a     *)
(* code or custom-typography element among its ancestors, at any depth,    *)
(* is left as it was.                                                      *)
(***************************************************************************)
C14_SkipsUnderAnyAncestor ==
    WalkReturned =>
       \A id \in InputTexts :
           AncestorTags(walk.input, id) \cap SkipTags # {} =>
              walk.heap[id] = walk.input[id]

(***************************************************************************)
(* C15.  Mutation discipline, as claimed: no object of the input tree is   *)
(* changed by the transform, so whoever holds the input tree sees it as it *)
(* was.                                                                    *)
(***************************************************************************)
C15_InputNotMutated ==
    \A id \in DOMAIN walk.input : walk.heap[id] = walk.input[id]

(***************************************************************************)
(* C18.  Termination and result of wrapTextTransform: every run returns,   *)
(* and when it has, every text whose parent was neither code nor           *)
(* custom-typography is a custom-typography element with empty properties  *)
(* whose only child is a new text of the same value, every object that was *)
(* not a text is as it was, and the text values are in the same order.     *)
(***************************************************************************)
WrappedAsClaimed ==
    /\ \A id \in InputTexts :
          LET before == walk.input[id]
              now == walk.heap[id]
          IN walk.input[ParentOf(walk.input, id)].tagName \notin SkipTags =>
                /\ now.type = "element"
                /\ now.tagName = "custom-typography"
                /\ now.properties = "{}"
                /\ Len(now.children) = 1
                /\ now.children[1] \notin DOMAIN walk.input
                /\ walk.heap[now.children[1]]
                      = HeapNode("text", "", before.value, Undefined, <<>>)
    /\ \A id \in DOMAIN walk.input \ InputTexts :
          walk.heap[id] = walk.input[id]
    /\ TextValuesOf(TreeAt(walk.heap, walk.root))
          = TextValuesOf(TreeAt(walk.input, walk.root))
    /\ TreeAt(walk.heap, walk.root)
          = wrapTextTransform(TreeAt(walk.input, walk.root))

C18_ReturnsWrapped ==
    /\ <>WalkReturned
    /\ [](WalkReturned => WrappedAsClaimed)

\* A run has returned on a tree with a text it wrapped and a text under
\* code it left.
C18_Witness ==
    /\ WalkReturned
    /\ walk.pass = 1
    /\ \E id \in InputTexts : walk.heap[id].tagName = "custom-typography"
    /\ \E id \in InputTexts :
          /\ walk.input[ParentOf(walk.input, id)].tagName = "code"
          /\ walk.heap[id].type = "text"

(***************************************************************************)
(* C17.  Marker replacement preserves the surrounding text: what           *)
(* renderReference returns for a text is the text's non-marker segments in *)
(* their order with one annotation at each marker's place; the text        *)
(* segments concatenated are the text with every marker deleted; a text    *)
(* without marker is returned unchanged.                                   *)
(***************************************************************************)
\* The positions of the text that lie in no marker.
OutsideMarkers(text) ==
    {i \in DOMAIN text : \A s \in MarkerSpans(text) : i < s[1] \/ i > s[2]}

\* The text with every marker occurrence deleted.
WithoutMarkers(text) ==
    LET kept == OutsideMarkers(text)
    IN [n \in 1..Cardinality(kept) |->
          text[CHOOSE i \in kept : Cardinality({j \in kept : j < i}) = n - 1]]

\* The text segments of a list of rendered nodes, concatenated.
TextOf(nodes) ==
    LET segments == SelectSeq(nodes, IsTextNode)
    IN Flatten([i \in DOMAIN segments |-> segments[i].value])

\* The place of the n-th annotation in a list of rendered nodes.
PlaceOfAnnotation(nodes, n) ==
    CHOOSE p \in DOMAIN nodes :
        /\ IsAnnotation(nodes[p])
        /\ Cardinality({q \in 1..(p - 1) : IsAnnotation(nodes[q])}) = n - 1

C17_SurroundingTextPreserved ==
    \A ct \in OnScreen :
        LET out == ct.children
            spans == MarkerSpans(ct.text)
        IN /\ TextOf(out) = WithoutMarkers(ct.text)
           /\ Len(AnnotationsOf(ct)) = Cardinality(spans)
           /\ \A n \in 1..Cardinality(spans) :
                 LET p == PlaceOfAnnotation(out, n)
                     s == NthSpan(ct.text, n)
                 IN TextOf(SubSeq(out, 1, p - 1))
                       = WithoutMarkers(SubSeq(ct.text, 1, s[1] - 1))
           /\ spans = {} => out = <<TextNode(ct.text)>>

\* A text with words before and after a marker is on screen, rendered to
\* its annotation and its text segments.
C17_Witness ==
    \E ct \in OnScreen :
        LET segments == TextSegmentsOf(ct)
        IN /\ Len(AnnotationsOf(ct)) >= 1
           /\ ~IsAnnotation(ct.children[1]) /\ ct.children[1].value # <<>>
           /\ ~IsAnnotation(ct.children[Len(ct.children)])
           /\ ct.children[Len(ct.children)].value # <<>>
           /\ OutsideMarkers(ct.text) # {}

(***************************************************************************)
(* C19.  Callback argument validity: whenever an activation invokes        *)
(* clickDocumentButton, the chunk passed is an element of reference.chunks *)
(* (never undefined) and the documentId passed is non-empty, is that       *)
(* chunk's document_id and is the doc_id of a document aggregate of the    *)
(* table; one activation makes at most one call, window.open or the        *)
(* callback, never both.                                                   *)
(***************************************************************************)
ValidCall(call) ==
    call.kind = "clickDocumentButton" =>
       /\ ~call.chunk.isUndefined
       /\ \E k \in DOMAIN ChunksOf(reference) :
             ChunksOf(reference)[k] = call.chunk
       /\ Truthy(call.documentId)
       /\ call.documentId = call.chunk.document_id
       /\ \E d \in DOMAIN DocAggsOf(reference) :
             DocAggsOf(reference)[d].doc_id = call.documentId

\* The click handlers on screen.
HandlersOnScreen ==
    LET onScreen == Annotations
    IN {HandlerOf(onScreen[i].node) :
           i \in {j \in DOMAIN onScreen : Clickable(onScreen[j].node)}}

C19_CallbackArgumentsValid ==
    /\ Len(effect.calls) <= 1
    /\ \A i \in DOMAIN effect.calls : ValidCall(effect.calls[i])
    /\ ValidCall(effect.did)
    /\ ~Threw =>
          \A handler \in HandlersOnScreen :
             LET calls == Calls(handler, clickDocumentButton)
             IN /\ Len(calls) <= 1
                /\ \A i \in DOMAIN calls : ValidCall(calls[i])

\* The document link of a popover was activated and the callback was
\* invoked, once.
C19_Witness ==
    /\ effect.via = "Popover"
    /\ Len(effect.calls) = 1
    /\ effect.calls[1].kind = "clickDocumentButton"
    /\ effect.did.kind = "clickDocumentButton"

(***************************************************************************)
(* C20.  Inline media: when the chunk's document is found in doc_aggs,     *)
(* activating the inline image dispatches exactly as the popover's         *)
(* document link of the same chunk does (same handler: documentId, chunk,  *)
(* pdf test, url); when it is not found, the activation does nothing: no   *)
(* navigation, no callback.                                                *)
(***************************************************************************)
\* The inline images on screen.
ImageCitations == {c \in CitationSet : c.node.type = "Image"}

C20_InlineMediaDispatch ==
    /\ ~Threw =>
          \A c \in ImageCitations :
             LET link == getPopoverContent(reference, fileThumbnails, c.index).link
             IN IF IsOrphan(ChunkAt(c.index))
                THEN /\ Calls(c.node.onClick, clickDocumentButton) = <<>>
                     /\ onClick(c.node.onClick, clickDocumentButton) = NoEffect
                ELSE /\ link.present
                     /\ c.node.onClick = link.onClick
                     /\ c.node.onClick.documentId = ChunkAt(c.index).document_id
                     /\ c.node.onClick.chunk = ChunkAt(c.index)
                     /\ c.node.onClick.isPdf
                           = (getExtension(DocumentFor(ChunkAt(c.index)).doc_name)
                                = "pdf")
                     /\ c.node.onClick.documentUrl
                           = DocumentFor(ChunkAt(c.index)).url
    /\ effect.via = "Image" =>
          \E c \in ImageCitations :
             IF IsOrphan(ChunkAt(c.index))
             THEN effect.did = NoEffect /\ effect.calls = <<>>
             ELSE effect.did = ActualDispatch(ChunkAt(c.index))

\* An inline image whose document is found and has a url was activated and
\* the url was opened.
C20_Witness ==
    /\ effect.via = "Image"
    /\ effect.did.kind = "window.open"
    /\ \E c \in ImageCitations :
          /\ ~IsOrphan(ChunkAt(c.index))
          /\ Truthy(DocumentFor(ChunkAt(c.index)).url)

(***************************************************************************)
(* C21.  Empty-answer placeholder: when content is the empty string the    *)
(* text that enters the normalization passes is the placeholder            *)
(* t('chat.searching'); when content is not empty it is exactly content.   *)
(* The placeholder is never shown for a non-empty answer nor mixed into    *)
(* it, also when the answer starts empty and then grows.                   *)
(***************************************************************************)
\* The passes of lines 56-57 applied to a text.
Passes(entering) ==
    preprocessLaTeX(replaceThinkToSection(replaceTextByOldReg(entering)))

\* The texts on screen, outside and inside custom-typography elements.
RECURSIVE ShownTexts(_)
ShownTexts(node) ==
    IF node.type = "text" THEN {node.value}
    ELSE IF IsAnnotation(node) THEN {}
    ELSE UNION {ShownTexts(node.children[i]) : i \in DOMAIN node.children}

PlaceholderShown ==
    \E shown \in ShownTexts(Rendered) : Holds(shown, Searching)

C21_PlaceholderOnlyWhenEmpty ==
    /\ TextEntering(content) = IF content = <<>> THEN Searching ELSE content
    /\ content = <<>> =>
          /\ hooks.contentWithCursor.value = Passes(Searching)
          /\ PlaceholderShown
    /\ content # <<>> =>
          /\ hooks.contentWithCursor.value = Passes(content)
          /\ ~Holds(hooks.contentWithCursor.value, Searching)
          /\ ~PlaceholderShown

\* The answer started empty, with the placeholder on screen, and has grown
\* twice since: the answer is on screen without the placeholder.
C21_Witness ==
    /\ updates >= 2
    /\ content # <<>>
    /\ hooks.contentWithCursor.value = Passes(content)
    /\ ShownTexts(Rendered) # {}
    /\ ~PlaceholderShown

(***************************************************************************)
(* C22.  Thumbnail-request synchronisation: after any sequence of          *)
(* reference updates, the ids last passed to setDocumentIds are the doc_id *)
(* values of the latest reference.doc_aggs, in order; they are the empty   *)
(* list when the latest reference is undefined or its doc_aggs is not an   *)
(* array; ids of an earlier reference do not persist.                      *)
(***************************************************************************)
C22_DocumentIdsFollowReference ==
    LET docAggs == DocAggsOf(reference)
    IN /\ Len(documentIds) = Len(docAggs)
       /\ \A i \in DOMAIN documentIds : documentIds[i] = docAggs[i].doc_id
       /\ (reference.isUndefined \/ reference.doc_aggs.kind # "array")
             => documentIds = <<>>

\* A table with document aggregates was shown and has been replaced by one
\* whose doc_aggs is not an array: no id is asked for any more.
C22_Witness ==
    /\ ~reference.isUndefined
    /\ reference.doc_aggs.kind = "object"
    /\ documentIds = <<>>

====
